---- MODULE Spec2Model ----
(***************************************************************************)
(* Model of idat_unbuilder: the scanline unfilter engine                   *)
(* (lib/unfilter_decompressed_idat.py), the IDAT chunk scanner and the     *)
(* IHDR header extractor (idat_unbuilder.py) and the CRC32 engine          *)
(* (crc32.py).  Each component has its own specification:                  *)
(*   SpecUnfilter  unfilter_scanlines called from main's step 5            *)
(*   SpecPaeth     unfilter_paeth called on its own                        *)
(*   SpecPng       main's steps 2 to 4: find_idat_chunks, the inflate      *)
(*                 call, get_png_ihdr_info                                 *)
(*   SpecCrc       calculate_crc32_standard and calculate_crc32_reversed   *)
(* A Python int (unbounded, non-negative) is the set of its set bits.      *)
(* Python sequences are 0-based; TLA+ sequences are 1-based, so the byte   *)
(* the code reads as s[i] is s[i + 1] here.                                *)
(***************************************************************************)
EXTENDS Integers, Sequences, FiniteSets, TLC

VARIABLES
    \* ---- unfilter_scanlines and its caller (main, step 5)
    decompressed_data,    \* the buffer handed to unfilter_scanlines
    width,                \* geometry arguments
    bytes_per_pixel,
    height,
    index,                \* read position in decompressed_data (0-based)
    scanline_number,      \* loop variable of "for scanline_number in range(height)"
    reconstructed_image,  \* the growing output bytearray
    upc,                  \* position of the call: "loop", "returned", "IndexError", "ValueError"
    unfiltered_file,      \* idat_unfiltered.bin as written by main: [written, bytes]
    last_filter_type,     \* filter_type read by the latest iteration
    last_scanline_data,   \* scanline_data sliced by the latest iteration
    last_prev,            \* prev_scanline computed by the latest iteration (types 2,3,4)
    rows,                 \* history: the reconstructed_scanline of every finished iteration
    orig_image,           \* history: the image the buffer was filtered from
    orig_filters,         \* history: the filter type chosen for each row
    \* ---- unfilter_paeth called on its own
    p_scanline,           \* argument scanline
    p_prev,               \* argument prev_scanline: None or a bytearray
    p_bpp,                \* argument bytes_per_pixel
    p_result,             \* the returned bytearray
    p_pc,                 \* "call" before the call, "done" after it
    \* ---- find_idat_chunks and get_png_ihdr_info, as main calls them
    file_data,            \* the bytes of the input file
    idx,                  \* find_idat_chunks: the search cursor
    idat_chunks,          \* find_idat_chunks: the records collected
    fpc,                  \* find_idat_chunks: "start", "loop", "returned"
    fdiag,                \* find_idat_chunks: the error it printed, or "none"
    located,              \* history: the tag positions file_data.find returned
    fpos,                 \* get_png_ihdr_info: the file position
    hpc,                  \* get_png_ihdr_info: "idle", "start", "loop", "returned", "not_run"
    hdiag,                \* get_png_ihdr_info: the error it printed, or "none"
    ihdr_result,          \* get_png_ihdr_info: the returned tuple
    \* ---- calculate_crc32_standard / calculate_crc32_reversed
    c_mode,               \* "standard" or "reversed": which function is running
    c_data,               \* argument data
    c_poly,               \* argument polynomial
    c_init,               \* argument initial_value
    crc,                  \* the register
    c_i,                  \* bytes of data consumed
    c_k,                  \* iterations of "for _ in range(8)" done for the current byte
    cpc,                  \* "byte" (outer loop head), "bit" (inner loop), "returned"
    c_result              \* the returned value

uvars == <<decompressed_data, width, bytes_per_pixel, height, index, scanline_number,
           reconstructed_image, upc, unfiltered_file, last_filter_type,
           last_scanline_data, last_prev, rows, orig_image, orig_filters>>

pvars == <<p_scanline, p_prev, p_bpp, p_result, p_pc>>

fvars == <<file_data, idx, idat_chunks, fpc, fdiag, located>>

hvars == <<fpos, hpc, hdiag, ihdr_result>>

cvars == <<c_mode, c_data, c_poly, c_init, crc, c_i, c_k, cpc, c_result>>

vars == <<uvars, pvars, fvars, hvars, cvars>>

\* The variables of the other components, which a component's steps leave alone.
notUnfilter == <<pvars, fvars, hvars, cvars>>
notPaeth == <<uvars, fvars, hvars, cvars>>
notPng == <<uvars, pvars, cvars>>
notCrc == <<uvars, pvars, fvars, hvars>>

-----------------------------------------------------------------------------
\* Bounds of the model.
MaxWidth == 2
MaxBpp == 2
MaxHeight == 3
MaxBytes == 6        \* longest decompressed buffer: height * (1 + stride) <= MaxBytes
MaxScanline == 3     \* longest scanline handed to unfilter_paeth on its own
MaxChunks == 2       \* most chunks in a generated file
MaxTrunc == 5        \* most bytes cut off the end of a generated file
MaxData == 2         \* longest byte sequence handed to the CRC functions

\* Byte values the original pixels are drawn from: they make the sums wrap
\* modulo 256, the Average floor round down, and each Paeth candidate win.
ByteVals == {0, 100, 255}

\* Byte values of the scanlines handed to unfilter_paeth on its own: with
\* the sums the filter forms of them, each candidate wins, each tie occurs
\* and the sums wrap modulo 256.
PaethVals == {0, 1, 3, 255}

\* Filter-type bytes of the generated rows; 5 stands for every byte outside 0..4.
FilterBytes == 0..5

-----------------------------------------------------------------------------
\* Python helpers.

Min(a, b) == IF a <= b THEN a ELSE b
abs(x) == IF x < 0 THEN -x ELSE x

\* s[a:b] for 0 <= a, 0 <= b: clamped to the sequence, never an error.
Slice(s, a, b) == SubSeq(s, Min(a, Len(s)) + 1, Min(b, Len(s)))

\* s[-n:] for n >= 0: the last n elements (all of s when n = 0 or n > len).
NegSlice(s, n) == IF n = 0 \/ n >= Len(s) THEN s ELSE SubSeq(s, Len(s) - n + 1, Len(s))

\* An optional bytearray: None, or a (possibly empty) sequence.
None == [isNone |-> TRUE, bytes |-> <<>>]
Some(s) == [isNone |-> FALSE, bytes |-> s]
\* Python truthiness of "prev_scanline": None and the empty bytearray are falsy.
Truthy(p) == ~p.isNone /\ Len(p.bytes) > 0

-----------------------------------------------------------------------------
\* The four inverse filters.

RECURSIVE unfilter_sub_loop(_, _, _)
unfilter_sub_loop(scanline, bpp, result) ==
    IF Len(result) >= Len(scanline) THEN result
    ELSE LET i == Len(result)
             byte == IF i < bpp THEN scanline[i + 1]
                     ELSE (scanline[i + 1] + result[i - bpp + 1]) % 256
         IN unfilter_sub_loop(scanline, bpp, Append(result, byte))

unfilter_sub(scanline, bpp) == unfilter_sub_loop(scanline, bpp, <<>>)

unfilter_up(scanline, prev_scanline) ==
    IF ~Truthy(prev_scanline) THEN scanline
    ELSE [i \in 1..Len(scanline) |-> (scanline[i] + prev_scanline.bytes[i]) % 256]

RECURSIVE unfilter_average_loop(_, _, _, _)
unfilter_average_loop(scanline, prev_scanline, bpp, result) ==
    IF Len(result) >= Len(scanline) THEN result
    ELSE LET i == Len(result)
             left == IF i >= bpp THEN result[i - bpp + 1] ELSE 0
             up == IF Truthy(prev_scanline) THEN prev_scanline.bytes[i + 1] ELSE 0
         IN unfilter_average_loop(scanline, prev_scanline, bpp,
                Append(result, (scanline[i + 1] + ((left + up) \div 2)) % 256))

\* A slip: the average rounded up instead of down.
RECURSIVE unfilter_average_ceil_loop(_, _, _, _)
unfilter_average_ceil_loop(scanline, prev_scanline, bpp, result) ==
    IF Len(result) >= Len(scanline) THEN result
    ELSE LET i == Len(result)
             left == IF i >= bpp THEN result[i - bpp + 1] ELSE 0
             up == IF Truthy(prev_scanline) THEN prev_scanline.bytes[i + 1] ELSE 0
         IN unfilter_average_ceil_loop(scanline, prev_scanline, bpp,
                Append(result, (scanline[i + 1] + ((left + up + 1) \div 2)) % 256))

unfilter_average_ceil(scanline, prev_scanline, bpp) ==
    unfilter_average_ceil_loop(scanline, prev_scanline, bpp, <<>>)

unfilter_average(scanline, prev_scanline, bpp) ==
    unfilter_average_loop(scanline, prev_scanline, bpp, <<>>)

\* A slip: the tie between up and upper_left going to upper_left.
paeth_predictor_strict(a, b, c) ==
    LET p == a + b - c
        pa == abs(p - a)
        pb == abs(p - b)
        pc == abs(p - c)
    IN IF pa <= pb /\ pa <= pc THEN a
       ELSE IF pb < pc THEN b
       ELSE c

paeth_predictor(a, b, c) ==
    LET p == a + b - c
        pa == abs(p - a)
        pb == abs(p - b)
        pc == abs(p - c)
    IN IF pa <= pb /\ pa <= pc THEN a
       ELSE IF pb <= pc THEN b
       ELSE c

RECURSIVE unfilter_paeth_loop(_, _, _, _)
unfilter_paeth_loop(scanline, prev_scanline, bpp, result) ==
    IF Len(result) >= Len(scanline) THEN result
    ELSE LET i == Len(result)
             left == IF i >= bpp THEN result[i - bpp + 1] ELSE 0
             up == IF Truthy(prev_scanline) THEN prev_scanline.bytes[i + 1] ELSE 0
             upper_left == IF Truthy(prev_scanline) /\ i >= bpp
                           THEN prev_scanline.bytes[i - bpp + 1] ELSE 0
         IN unfilter_paeth_loop(scanline, prev_scanline, bpp,
                Append(result, (scanline[i + 1] + paeth_predictor(left, up, upper_left)) % 256))

unfilter_paeth(scanline, prev_scanline, bpp) ==
    unfilter_paeth_loop(scanline, prev_scanline, bpp, <<>>)

\* A slip: the previous scanline taken from the front of the image.
prev_scanline_first_row(image, n) ==
    IF Len(image) > 0 THEN Some(Slice(image, 0, n)) ELSE None

\* prev_scanline = reconstructed_image[-stride:] if reconstructed_image else None
prev_scanline_of(image, n) ==
    IF Len(image) > 0 THEN Some(NegSlice(image, n)) ELSE None

\* The dispatch on filter_type for the types the code knows, given the
\* previous scanline the Up, Average and Paeth branches compute.
unfilter_with_prev(filter_type, scanline_data, prev_scanline, bpp) ==
    CASE filter_type = 0 -> scanline_data
      [] filter_type = 1 -> unfilter_sub(scanline_data, bpp)
      [] filter_type = 2 -> unfilter_up(scanline_data, prev_scanline)
      [] filter_type = 3 -> unfilter_average(scanline_data, prev_scanline, bpp)
      [] filter_type = 4 -> unfilter_paeth(scanline_data, prev_scanline, bpp)

reconstruct(filter_type, scanline_data, image, n, bpp) ==
    unfilter_with_prev(filter_type, scanline_data, prev_scanline_of(image, n), bpp)

\* A slip: the filter byte not counted when the read position advances.
next_index_no_filter_byte(i, n) == i + n

\* index += 1 (the filter byte), then index += stride (the scanline data).
next_index(i, n) == i + 1 + n

-----------------------------------------------------------------------------
\* The forward direction (PNG's filter), which the repository does not
\* implement: it produces the buffers unfilter_scanlines is run on.

\* PNG's Paeth predictor as the specification words it: the candidate among
\* left, up, upper_left nearest to p = left + up - upper_left, ties going to
\* left, then up, then upper_left.
png_paeth(left, up, upper_left) ==
    LET p == left + up - upper_left
        dist(x) == abs(p - x)
        least == Min(dist(left), Min(dist(up), dist(upper_left)))
    IN IF dist(left) = least THEN left
       ELSE IF dist(up) = least THEN up
       ELSE upper_left

\* Byte i (0-based) of the filtered row, from the original row and the
\* original previous row (prev = <<>> for the first row, read as zero).
filter_byte(ft, orig, prev, bpp, i) ==
    LET left == IF i >= bpp THEN orig[i - bpp + 1] ELSE 0
        up == IF Len(prev) > 0 THEN prev[i + 1] ELSE 0
        upper_left == IF Len(prev) > 0 /\ i >= bpp THEN prev[i - bpp + 1] ELSE 0
        pred == CASE ft = 1 -> left
                  [] ft = 2 -> up
                  [] ft = 3 -> (left + up) \div 2
                  [] ft = 4 -> png_paeth(left, up, upper_left)
                  [] OTHER -> 0
    IN (orig[i + 1] - pred + 256) % 256

filter_row(ft, orig, prev, bpp) ==
    [i \in 1..Len(orig) |-> filter_byte(ft, orig, prev, bpp, i - 1)]

RECURSIVE filter_image(_, _, _, _)
\* Rows r..Len(img) of the filtered stream: filter byte, then the filtered row.
filter_image(img, fts, bpp, r) ==
    IF r > Len(img) THEN <<>>
    ELSE <<fts[r]>> \o filter_row(fts[r], img[r], IF r = 1 THEN <<>> ELSE img[r - 1], bpp)
         \o filter_image(img, fts, bpp, r + 1)

-----------------------------------------------------------------------------
\* unfilter_scanlines, one loop iteration per step, and main's step 5.

NoFile == [written |-> FALSE, bytes |-> <<>>]

\* The other components at rest.
PaethIdle ==
    /\ p_scanline = <<>> /\ p_prev = None /\ p_bpp = 1 /\ p_result = <<>> /\ p_pc = "idle"

NoGeometry == [ok |-> FALSE, width |-> 0, height |-> 0, bytes_per_pixel |-> 0]

PngIdle ==
    /\ file_data = <<>> /\ idx = 0 /\ idat_chunks = <<>> /\ fpc = "idle"
    /\ fdiag = "none" /\ located = <<>>
    /\ fpos = 0 /\ hpc = "idle" /\ hdiag = "none" /\ ihdr_result = NoGeometry

CrcIdle ==
    /\ c_mode = "idle" /\ c_data = <<>> /\ c_poly = {} /\ c_init = {} /\ crc = {}
    /\ c_i = 0 /\ c_k = 0 /\ cpc = "idle" /\ c_result = {}

UnfilterIdle ==
    /\ decompressed_data = <<>> /\ width = 0 /\ bytes_per_pixel = 0 /\ height = 0
    /\ index = 0 /\ scanline_number = 0 /\ reconstructed_image = <<>>
    /\ upc = "idle" /\ unfiltered_file = NoFile /\ last_filter_type = 0
    /\ last_scanline_data = <<>> /\ last_prev = None /\ rows = <<>>
    /\ orig_image = <<>> /\ orig_filters = <<>>

stride == width * bytes_per_pixel

InitUnfilter ==
    \E w \in 0..MaxWidth, b \in 0..MaxBpp, h \in 0..MaxHeight :
      /\ h * (1 + w * b) <= MaxBytes
      /\ \E img \in [1..h -> [1..(w * b) -> ByteVals]], fts \in [1..h -> FilterBytes] :
           \E cut \in 0..(h * (1 + w * b)) :
             /\ decompressed_data = SubSeq(filter_image(img, fts, b, 1), 1, cut)
             /\ orig_image = img
             /\ orig_filters = fts
      /\ width = w
      /\ bytes_per_pixel = b
      /\ height = h
      /\ index = 0
      /\ scanline_number = 0
      /\ reconstructed_image = <<>>
      /\ upc = "loop"
      /\ unfiltered_file = NoFile
      /\ last_filter_type = 0
      /\ last_scanline_data = <<>>
      /\ last_prev = None
      /\ rows = <<>>
      /\ PaethIdle
      /\ PngIdle
      /\ CrcIdle

\* filter_type = decompressed_data[index] with no byte left: IndexError.
ScanlineIndexError ==
    /\ upc = "loop"
    /\ scanline_number < height
    /\ index >= Len(decompressed_data)
    /\ upc' = "IndexError"
    /\ UNCHANGED <<decompressed_data, width, bytes_per_pixel, height, index,
                   scanline_number, reconstructed_image, unfiltered_file,
                   last_filter_type, last_scanline_data, last_prev, rows,
                   orig_image, orig_filters, notUnfilter>>

\* One iteration that reads the filter byte and the (clamped) data slice.
ScanlineIteration ==
    /\ upc = "loop"
    /\ scanline_number < height
    /\ index < Len(decompressed_data)
    /\ LET filter_type == decompressed_data[index + 1]
           scanline_data == Slice(decompressed_data, index + 1, index + 1 + stride)
       IN /\ index' = next_index(index, stride)
          /\ last_filter_type' = filter_type
          /\ last_scanline_data' = scanline_data
          /\ \/ /\ filter_type \in 0..4
                /\ LET reconstructed_scanline ==
                         reconstruct(filter_type, scanline_data, reconstructed_image,
                                     stride, bytes_per_pixel)
                   IN /\ reconstructed_image' = reconstructed_image \o reconstructed_scanline
                      /\ rows' = Append(rows, reconstructed_scanline)
                /\ last_prev' = IF filter_type \in 2..4
                                THEN prev_scanline_of(reconstructed_image, stride)
                                ELSE last_prev
                /\ scanline_number' = scanline_number + 1
                /\ upc' = upc
             \/ /\ filter_type \notin 0..4
                /\ upc' = "ValueError"
                /\ UNCHANGED <<reconstructed_image, rows, last_prev, scanline_number>>
    /\ UNCHANGED <<decompressed_data, width, bytes_per_pixel, height, unfiltered_file,
                   orig_image, orig_filters, notUnfilter>>

\* The loop is over: return reconstructed_image.
UnfilterReturn ==
    /\ upc = "loop"
    /\ scanline_number >= height
    /\ upc' = "returned"
    /\ UNCHANGED <<decompressed_data, width, bytes_per_pixel, height, index,
                   scanline_number, reconstructed_image, unfiltered_file,
                   last_filter_type, last_scanline_data, last_prev, rows,
                   orig_image, orig_filters, notUnfilter>>

\* A slip: the call's exceptions swallowed, the partial image written.
unfilter_call_finished == upc \in {"returned", "ValueError", "IndexError"}

\* main reaches write_result_to_file only when unfilter_idat_data returned;
\* an exception raised by unfilter_scanlines propagates out of main.
unfilter_call_returned == upc = "returned"

\* main, step 5: write the returned bytes to idat_unfiltered.bin.
MainWriteUnfiltered ==
    /\ unfilter_call_returned
    /\ ~unfiltered_file.written
    /\ unfiltered_file' = [written |-> TRUE, bytes |-> reconstructed_image]
    /\ UNCHANGED <<decompressed_data, width, bytes_per_pixel, height, index,
                   scanline_number, reconstructed_image, upc,
                   last_filter_type, last_scanline_data, last_prev, rows,
                   orig_image, orig_filters, notUnfilter>>

NextUnfilter ==
    \/ ScanlineIndexError
    \/ ScanlineIteration
    \/ UnfilterReturn
    \/ MainWriteUnfiltered

SpecUnfilter == InitUnfilter /\ [][NextUnfilter]_vars

-----------------------------------------------------------------------------
\* unfilter_paeth called on its own: any scanline, any previous scanline of
\* the same length or none, any bytes_per_pixel >= 1.

InitPaeth ==
    /\ \E n \in 0..MaxScanline :
         /\ p_scanline \in [1..n -> PaethVals]
         /\ p_prev \in {None} \cup {Some(s) : s \in [1..n -> PaethVals]}
    /\ p_bpp \in 1..MaxBpp
    /\ p_result = <<>>
    /\ p_pc = "call"
    /\ UnfilterIdle
    /\ PngIdle
    /\ CrcIdle

CallUnfilterPaeth ==
    /\ p_pc = "call"
    /\ p_result' = unfilter_paeth(p_scanline, p_prev, p_bpp)
    /\ p_pc' = "done"
    /\ UNCHANGED <<p_scanline, p_prev, p_bpp, notPaeth>>

NextPaeth == CallUnfilterPaeth

SpecPaeth == InitPaeth /\ [][NextPaeth]_vars

-----------------------------------------------------------------------------
\* PNG bytes.

png_signature == <<137, 80, 78, 71, 13, 10, 26, 10>>    \* b'\x89PNG\r\n\x1a\n'
IDAT == <<73, 68, 65, 84>>                              \* b'IDAT'
IHDR == <<73, 72, 68, 82>>                              \* b'IHDR'
tEXt == <<116, 69, 88, 116>>                            \* b'tEXt'

\* struct.unpack('>I', b)[0] for 4 bytes b.
unpack_u32(b) == ((b[1] * 256 + b[2]) * 256 + b[3]) * 256 + b[4]

\* struct.pack('>I', n) for the small n of the generated files.
pack_u32(n) == <<0, 0, n \div 256, n % 256>>

\* s.find(pat, start): the lowest position >= start where pat occurs, or -1.
Find(s, pat, start) ==
    LET hits == {j \in start..(Len(s) - Len(pat)) : SubSeq(s, j + 1, j + Len(pat)) = pat}
    IN IF hits = {} THEN -1 ELSE CHOOSE j \in hits : \A k \in hits : j <= k

\* One framed chunk: length, type, payload, checksum.
chunk_bytes(type, payload, checksum) ==
    pack_u32(Len(payload)) \o type \o payload \o checksum

\* The 13-byte IHDR payload.
ihdr_payload(w, h, bit_depth, color_type) ==
    pack_u32(w) \o pack_u32(h) \o <<bit_depth, color_type, 0, 0, 0>>

\* The chunks the generated files are made of, besides IHDR.
a_crc == <<1, 2, 3, 4>>
OtherChunks ==
    { chunk_bytes(IDAT, <<>>, a_crc),
      chunk_bytes(IDAT, <<7, 9>>, a_crc),
      chunk_bytes(tEXt, <<5>>, a_crc),
      chunk_bytes(tEXt, IDAT, a_crc),
      chunk_bytes(tEXt, <<0, 0, 0, 0>> \o IDAT \o <<9, 9, 9, 9>>, a_crc) }

\* The IHDR fields of the generated files.
IhdrSizes == {<<0, 1>>, <<2, 0>>, <<2, 1>>}
IhdrBitDepths == {1, 8, 16}
IhdrColorTypes == {0, 2, 3, 4, 6, 7}

RECURSIVE Concat(_)
Concat(ss) == IF ss = <<>> THEN <<>> ELSE Head(ss) \o Concat(Tail(ss))

-----------------------------------------------------------------------------
\* find_idat_chunks (the resilient marker search), one loop iteration per step.

include_magic == FALSE    \* main calls find_idat_chunks(file_data)

\* A slip: the cursor left on the tag it located.
cursor_stays(found, crc32_end) == found

\* idx = crc32_end: move past the chunk data and its checksum.
cursor_after(found, crc32_end) == crc32_end

\* A slip: the 4 checksum bytes not counted in the bounds test.
chunk_fits_without_crc(data_end, n) == data_end <= n

\* The negation of "data_end + 4 > len(file_data)".
chunk_fits(data_end, n) == data_end + 4 <= n

InitPng ==
    /\ \E sig \in {png_signature, <<137, 80, 78, 71, 13, 10, 26, 13>>},
          size \in IhdrSizes, bit_depth \in IhdrBitDepths, color_type \in IhdrColorTypes,
          n \in 0..MaxChunks, k \in 0..MaxTrunc :
         \E cs \in [1..n -> OtherChunks
                            \cup {chunk_bytes(IHDR, ihdr_payload(size[1], size[2], bit_depth,
                                                                 color_type), a_crc)}] :
            LET whole == sig \o Concat(cs)
            IN file_data = SubSeq(whole, 1, Len(whole) - k)
    /\ idx = 0
    /\ idat_chunks = <<>>
    /\ fpc = "start"
    /\ fdiag = "none"
    /\ located = <<>>
    /\ fpos = 0
    /\ hpc = "idle"
    /\ hdiag = "none"
    /\ ihdr_result = NoGeometry
    /\ UnfilterIdle
    /\ PaethIdle
    /\ CrcIdle

\* The signature test and the initialisation before the loop.
FindStart ==
    /\ fpc = "start"
    /\ IF Slice(file_data, 0, 8) # png_signature
       THEN /\ fdiag' = "not_png"
            /\ fpc' = "returned"
            /\ UNCHANGED idx
       ELSE /\ idx' = 8
            /\ fpc' = "loop"
            /\ UNCHANGED fdiag
    /\ UNCHANGED <<file_data, idat_chunks, located, hvars, notPng>>

\* One iteration of "while idx < len(file_data)".
FindIteration ==
    /\ fpc = "loop"
    /\ idx < Len(file_data)
    /\ \E found \in {Find(file_data, IDAT, idx)} :     \* idx = file_data.find(b'IDAT', idx)
       LET length_start == found - 4
           length == unpack_u32(Slice(file_data, length_start, found))
           data_start == found + 4
           data_end == data_start + length
           chunk_data == IF include_magic THEN Slice(file_data, found, data_end)
                         ELSE Slice(file_data, data_start, data_end)
           crc32_start == data_end
           crc32_end == crc32_start + 4
           crc32_bytes == Slice(file_data, crc32_start, crc32_end)
       IN /\ idx' = IF found # -1 /\ length_start >= 0 /\ chunk_fits(data_end, Len(file_data))
                    THEN cursor_after(found, crc32_end) ELSE found
          /\ located' = IF found = -1 THEN located ELSE Append(located, found)
          /\ \/ /\ found = -1                       \* no more IDAT markers: break
                /\ fpc' = "returned"
                /\ UNCHANGED <<idat_chunks, fdiag>>
             \/ /\ found # -1
                /\ length_start < 0                 \* "Invalid IDAT chunk": break
                /\ fdiag' = "invalid"
                /\ fpc' = "returned"
                /\ UNCHANGED idat_chunks
             \/ /\ found # -1
                /\ length_start >= 0
                /\ ~chunk_fits(data_end, Len(file_data))   \* "Incomplete IDAT chunk": break
                /\ fdiag' = "incomplete"
                /\ fpc' = "returned"
                /\ UNCHANGED idat_chunks
             \/ /\ found # -1
                /\ length_start >= 0
                /\ chunk_fits(data_end, Len(file_data))
                /\ idat_chunks' = Append(idat_chunks,
                                         [chunk_data |-> chunk_data, crc32_bytes |-> crc32_bytes])
                /\ UNCHANGED <<fpc, fdiag>>
    /\ UNCHANGED <<file_data, hvars, notPng>>

\* The loop condition fails: return idat_chunks.
FindLoopExit ==
    /\ fpc = "loop"
    /\ idx >= Len(file_data)
    /\ fpc' = "returned"
    /\ UNCHANGED <<file_data, idx, idat_chunks, fdiag, located, hvars, notPng>>

\* main, step 3: the inflate call on the joined payloads succeeds, and main
\* goes on to get_png_ihdr_info, or fails, and main returns.
MainDecompress ==
    /\ fpc = "returned"
    /\ hpc = "idle"
    /\ hpc' \in {"start", "not_run"}
    /\ UNCHANGED <<fvars, fpos, hdiag, ihdr_result, notPng>>

-----------------------------------------------------------------------------
\* get_png_ihdr_info (strict sequential framing), one loop iteration per step.

\* file.read(n) at position pos: the bytes it returns.
file_read(pos, n) == Slice(file_data, pos, pos + n)

Geometry(w, h, bpp) == [ok |-> TRUE, width |-> w, height |-> h, bytes_per_pixel |-> bpp]

\* Bytes per pixel from bit depth and colour type; -1 for "Unsupported color type".
bytes_per_pixel_of(bit_depth, color_type) ==
    CASE color_type = 0 -> bit_depth \div 8
      [] color_type = 2 -> (bit_depth \div 8) * 3
      [] color_type = 3 -> 1
      [] color_type = 4 -> (bit_depth \div 8) * 2
      [] color_type = 6 -> (bit_depth \div 8) * 4
      [] OTHER -> -1

HdrStart ==
    /\ hpc = "start"
    /\ LET png_sig == file_read(0, 8)
       IN /\ fpos' = Len(png_sig)
          /\ IF png_sig # png_signature
             THEN /\ hdiag' = "not_png"
                  /\ hpc' = "returned"
             ELSE /\ hpc' = "loop"
                  /\ UNCHANGED hdiag
    /\ UNCHANGED <<ihdr_result, fvars, notPng>>

\* One iteration of "while True".
HdrIteration ==
    /\ hpc = "loop"
    /\ LET chunk_length_data == file_read(fpos, 4)
           pos1 == fpos + Len(chunk_length_data)
           chunk_type == file_read(pos1, 4)
           pos2 == pos1 + Len(chunk_type)
           chunk_length == unpack_u32(chunk_length_data)
           ihdr_data == file_read(pos2, 13)
           pos3 == pos2 + Len(ihdr_data)
           head == Slice(ihdr_data, 0, 10)
           w == unpack_u32(SubSeq(head, 1, 4))
           h == unpack_u32(SubSeq(head, 5, 8))
           bit_depth == head[9]
           color_type == head[10]
           bpp == bytes_per_pixel_of(bit_depth, color_type)
       IN \/ /\ Len(chunk_length_data) < 4 \/ Len(chunk_type) < 4   \* "Unexpected end of file"
             /\ fpos' = pos2
             /\ hdiag' = "eof"
             /\ hpc' = "returned"
             /\ UNCHANGED ihdr_result
          \/ /\ Len(chunk_length_data) = 4 /\ Len(chunk_type) = 4
             /\ chunk_type = IHDR
             /\ fpos' = pos3
             /\ hpc' = "returned"
             /\ IF Len(head) < 10               \* struct.error, caught by "except Exception"
                THEN /\ hdiag' = "exception"
                     /\ UNCHANGED ihdr_result
                ELSE IF bpp = -1
                THEN /\ hdiag' = "unsupported"
                     /\ UNCHANGED ihdr_result
                ELSE /\ ihdr_result' = Geometry(w, h, bpp)
                     /\ UNCHANGED hdiag
          \/ /\ Len(chunk_length_data) = 4 /\ Len(chunk_type) = 4
             /\ chunk_type # IHDR
             /\ fpos' = pos2 + chunk_length + 4     \* file.seek(chunk_length + 4, 1)
             /\ UNCHANGED <<hpc, hdiag, ihdr_result>>
    /\ UNCHANGED <<fvars, notPng>>

NextPng ==
    \/ FindStart
    \/ FindIteration
    \/ FindLoopExit
    \/ MainDecompress
    \/ HdrStart
    \/ HdrIteration

SpecPng == InitPng /\ [][NextPng]_vars

-----------------------------------------------------------------------------
\* crc32.py.  Integers as sets of bit positions: bit i of n is set iff i is
\* in the set, so that a register wider than 32 bits stays representable.

\* The bits of a number below 2^16.
Bits16(n) == {i \in 0..15 : (n \div (2 ^ i)) % 2 = 1}

\* The 32-bit word with high half hi and low half lo.
Word(hi, lo) == Bits16(lo) \cup {i + 16 : i \in Bits16(hi)}

xor(a, b) == (a \ b) \cup (b \ a)                  \* a ^ b
shl(a, n) == {i + n : i \in a}                     \* a << n
shr1(a) == {i - 1 : i \in a \ {0}}                 \* a >> 1

\* A slip: the register never masked.
mask_none(a) == a

\* a & 0xFFFFFFFF
mask32(a) == a \cap 0..31

standard_polynomial == Word(1217, 7607)            \* 0x04C11DB7
reversed_polynomial == Word(60856, 33568)          \* 0xEDB88320
default_initial_value == Word(65535, 65535)        \* 0xFFFFFFFF

\* The arguments the functions are run on.
CrcBytes == {0, 49, 128, 255}
CrcPolynomials == {standard_polynomial, reversed_polynomial, Word(65535, 65535), Word(0, 0)}
CrcInitialValues == {default_initial_value, Word(0, 0), Word(32768, 1)}

InitCrc ==
    /\ c_mode \in {"standard", "reversed"}
    /\ \E n \in 0..MaxData : c_data \in [1..n -> CrcBytes]
    /\ c_poly \in CrcPolynomials
    /\ c_init \in CrcInitialValues
    /\ crc = c_init                                \* crc = initial_value
    /\ c_i = 0
    /\ c_k = 0
    /\ cpc = "byte"
    /\ c_result = {}
    /\ UnfilterIdle
    /\ PaethIdle
    /\ PngIdle

\* calculate_crc32_standard: crc ^= byte << 24
StandardXorByte ==
    /\ c_mode = "standard" /\ cpc = "byte" /\ c_i < Len(c_data)
    /\ crc' = xor(crc, shl(Bits16(c_data[c_i + 1]), 24))
    /\ c_k' = 0
    /\ cpc' = "bit"
    /\ UNCHANGED <<c_mode, c_data, c_poly, c_init, c_i, c_result, notCrc>>

\* calculate_crc32_standard: one iteration of "for _ in range(8)"
StandardShift ==
    /\ c_mode = "standard" /\ cpc = "bit" /\ c_k < 8
    /\ crc' = IF 31 \in crc                        \* crc & 0x80000000
              THEN xor(shl(crc, 1), c_poly)
              ELSE shl(crc, 1)
    /\ c_k' = c_k + 1
    /\ UNCHANGED <<c_mode, c_data, c_poly, c_init, c_i, cpc, c_result, notCrc>>

\* calculate_crc32_standard: crc &= 0xFFFFFFFF, after the 8 iterations
StandardMask ==
    /\ c_mode = "standard" /\ cpc = "bit" /\ c_k = 8
    /\ crc' = mask32(crc)
    /\ c_i' = c_i + 1
    /\ cpc' = "byte"
    /\ UNCHANGED <<c_mode, c_data, c_poly, c_init, c_k, c_result, notCrc>>

\* calculate_crc32_reversed: crc ^= byte
ReversedXorByte ==
    /\ c_mode = "reversed" /\ cpc = "byte" /\ c_i < Len(c_data)
    /\ crc' = xor(crc, Bits16(c_data[c_i + 1]))
    /\ c_k' = 0
    /\ cpc' = "bit"
    /\ UNCHANGED <<c_mode, c_data, c_poly, c_init, c_i, c_result, notCrc>>

\* calculate_crc32_reversed: one iteration of "for _ in range(8)"
ReversedShift ==
    /\ c_mode = "reversed" /\ cpc = "bit" /\ c_k < 8
    /\ crc' = IF 0 \in crc                         \* crc & 1
              THEN xor(shr1(crc), c_poly)
              ELSE shr1(crc)
    /\ c_k' = c_k + 1
    /\ UNCHANGED <<c_mode, c_data, c_poly, c_init, c_i, cpc, c_result, notCrc>>

\* calculate_crc32_reversed: the inner loop is over, on to the next byte
ReversedNextByte ==
    /\ c_mode = "reversed" /\ cpc = "bit" /\ c_k = 8
    /\ c_i' = c_i + 1
    /\ cpc' = "byte"
    /\ UNCHANGED <<c_mode, c_data, c_poly, c_init, crc, c_k, c_result, notCrc>>

\* Both functions: return crc ^ initial_value
CrcReturn ==
    /\ cpc = "byte" /\ c_i >= Len(c_data)
    /\ c_result' = xor(crc, c_init)
    /\ cpc' = "returned"
    /\ UNCHANGED <<c_mode, c_data, c_poly, c_init, crc, c_i, c_k, notCrc>>

NextCrc ==
    \/ StandardXorByte
    \/ StandardShift
    \/ StandardMask
    \/ ReversedXorByte
    \/ ReversedShift
    \/ ReversedNextByte
    \/ CrcReturn

SpecCrc == InitCrc /\ [][NextCrc]_vars

-----------------------------------------------------------------------------
\* Properties of the unfilter engine (SpecUnfilter).

\* Row r (1-based) of the buffer is complete: its filter byte and all of its
\* stride data bytes are there.
RowComplete(r) == r * (1 + stride) <= Len(decompressed_data)

\* The filter byte of row r, when the buffer reaches that far.
HasFilterByte(r) == (r - 1) * (1 + stride) < Len(decompressed_data)
FilterByteOf(r) == decompressed_data[(r - 1) * (1 + stride) + 1]

\* height scanlines of 1 + stride bytes each, every filter byte in 0..4.
WellFormed ==
    /\ Len(decompressed_data) = height * (1 + stride)
    /\ \A r \in 1..height : FilterByteOf(r) \in 0..4

\* The row above row r as the PNG filters read it: all-zero above the first row.
RowAbove(r) == IF r = 1 THEN [i \in 1..stride |-> 0] ELSE rows[r - 1]

\* C1: round trip.  Every complete scanline that was forward-filtered with
\* one of the 5 filter types (bytes_per_pixel >= 1, any previous scanline,
\* none for the first row) is reconstructed to its original bytes.
C1_RoundTrip ==
    \A r \in 1..Len(rows) :
        (bytes_per_pixel >= 1 /\ RowComplete(r)) => rows[r] = orig_image[r]

\* Paeth on the second row above an Average first row, on pixels the
\* filters changed, has been undone.
C1_Witness ==
    /\ upc = "returned"
    /\ height = 2 /\ width = 2 /\ bytes_per_pixel = 1
    /\ orig_filters = <<3, 4>>
    /\ orig_image = <<(<<100, 255>>), (<<255, 100>>)>>
    /\ Len(decompressed_data) = 6
    /\ SubSeq(decompressed_data, 2, 3) # orig_image[1]
    /\ SubSeq(decompressed_data, 5, 6) # orig_image[2]
    /\ rows = orig_image

\* C2: scanline count.  On a well-formed buffer the call never fails, after
\* k iterations index = k * (1 + stride) and the output holds k * stride
\* bytes, and it returns after exactly height iterations.
C2_ScanlineCount ==
    WellFormed =>
        /\ upc \in {"loop", "returned"}
        /\ index = scanline_number * (1 + stride)
        /\ Len(reconstructed_image) = scanline_number * stride
        /\ upc = "returned" =>
              /\ scanline_number = height
              /\ index = height * (1 + stride)
              /\ Len(reconstructed_image) = height * stride

C2_Witness ==
    /\ WellFormed
    /\ upc = "returned"
    /\ height = 2 /\ stride = 2
    /\ index = 6
    /\ Len(reconstructed_image) = 4

\* C3 (as claimed): the call never returns an image when some scanline
\* starts with fewer than 1 + stride bytes left in the buffer.
C3_TruncatedNeverReturns ==
    (height >= 1 /\ Len(decompressed_data) < height * (1 + stride)) => upc # "returned"

\* The first row (1-based) whose filter byte is outside 0..4; 0 when none.
BadRows == {r \in 1..height : HasFilterByte(r) /\ FilterByteOf(r) \notin 0..4}
FirstBadRow == IF BadRows = {} THEN 0
               ELSE CHOOSE r \in BadRows : \A q \in BadRows : r <= q

\* C4: unknown filter type.  When some scanline's filter byte is outside
\* 0..4 the loop never gets past the first such row, the call ends there
\* with ValueError and never returns bytes, and main writes no file.
C4_UnknownFilterAborts ==
    BadRows # {} =>
        /\ upc \in {"loop", "ValueError"}
        /\ upc = "loop" => scanline_number < FirstBadRow
        /\ upc = "ValueError" => scanline_number = FirstBadRow - 1
        /\ ~unfiltered_file.written
        /\ ~ENABLED UnfilterReturn

\* Two rows were reconstructed before the bad third row; nothing is written.
C4_Witness ==
    /\ upc = "ValueError"
    /\ FirstBadRow = 3
    /\ Len(reconstructed_image) = 2
    /\ reconstructed_image # <<0, 0>>
    /\ ~unfiltered_file.written
    /\ ~ENABLED NextUnfilter

\* C8: previous scanline.  The row the latest iteration reconstructed with
\* Up, Average or Paeth was computed without error, against an all-zero row
\* when it is the first row (prev_scanline was None) and against the
\* reconstructed bytes of the row before it otherwise.
C8_PrevScanline ==
    (Len(rows) >= 1 /\ last_filter_type \in 2..4) =>
        LET r == Len(rows) IN
        /\ r = 1 => last_prev = None
        /\ (r > 1 /\ stride > 0) => last_prev = Some(rows[r - 1])
        /\ rows[r] = unfilter_with_prev(last_filter_type, last_scanline_data,
                                        Some(RowAbove(r)), bytes_per_pixel)

\* The third row (Paeth) above two different rows of other filter types.
C8_Witness ==
    /\ Len(rows) = 3
    /\ last_filter_type = 4
    /\ orig_filters = <<1, 3, 4>>
    /\ stride = 1
    /\ rows[1] # rows[2]
    /\ last_prev = Some(rows[2])
    /\ rows[3] # last_scanline_data

-----------------------------------------------------------------------------
\* Properties of the chunk scanner and the header extractor (SpecPng).

\* Strict sequential framing as the specification words it: from position
\* pos, read a 4-byte length, a 4-byte type, length payload bytes and a
\* 4-byte checksum, advance by 12 + length, until the buffer is used up.
\* strict_end is where that walk stops; strict_idat_records is what it
\* yields for the chunks of type IDAT.
RECURSIVE strict_end(_, _)
strict_end(buf, pos) ==
    IF pos + 8 > Len(buf) THEN pos
    ELSE LET length == unpack_u32(SubSeq(buf, pos + 1, pos + 4))
         IN IF pos + 12 + length > Len(buf) THEN pos
            ELSE strict_end(buf, pos + 12 + length)

RECURSIVE strict_idat_records(_, _)
strict_idat_records(buf, pos) ==
    IF pos + 8 > Len(buf) THEN <<>>
    ELSE LET length == unpack_u32(SubSeq(buf, pos + 1, pos + 4))
             type == SubSeq(buf, pos + 5, pos + 8)
             rec == [chunk_data |-> SubSeq(buf, pos + 9, pos + 8 + length),
                     crc32_bytes |-> SubSeq(buf, pos + 9 + length, pos + 12 + length)]
         IN IF pos + 12 + length > Len(buf) THEN <<>>
            ELSE (IF type = IDAT THEN <<rec>> ELSE <<>>)
                 \o strict_idat_records(buf, pos + 12 + length)

\* A valid signature followed by correctly framed chunks, and nothing else.
WellFramed(buf) ==
    /\ Len(buf) >= 8
    /\ SubSeq(buf, 1, 8) = png_signature
    /\ strict_end(buf, 8) = Len(buf)

\* C5 (as claimed): on a well-framed buffer the marker search returns
\* exactly the IDAT records of strict sequential framing, in order.
C5_DisciplinesAgree ==
    (fpc = "returned" /\ WellFramed(file_data)) =>
        idat_chunks = strict_idat_records(file_data, 8)

\* The record of the IDAT tag at position t: the declared length is read
\* from the 4 bytes before the tag, the payload follows the tag, then 4
\* checksum bytes.
DeclaredLength(t) == unpack_u32(SubSeq(file_data, t - 3, t))
RecordAt(t) ==
    [chunk_data |-> SubSeq(file_data, t + 5, t + 4 + DeclaredLength(t)),
     crc32_bytes |-> SubSeq(file_data, t + 5 + DeclaredLength(t), t + 8 + DeclaredLength(t))]

\* C6: truncated chunk.  Every record collected is the record of the tag
\* located for it, in scan order, with a payload of its declared length and
\* a 4-byte checksum; and when the scan stops at an IDAT tag whose declared
\* length leaves fewer than length + 4 bytes after the tag, the function
\* has returned exactly the records of the tags located before that one.
C6_TruncatedChunk ==
    /\ Len(located) >= Len(idat_chunks)
    /\ \A k \in 1..Len(idat_chunks) :
         /\ Len(idat_chunks[k].crc32_bytes) = 4
         /\ Len(idat_chunks[k].chunk_data) = DeclaredLength(located[k])
         /\ idat_chunks[k] = RecordAt(located[k])
         /\ k < Len(located) => located[k] < located[k + 1]
    /\ fdiag = "incomplete" =>
         /\ fpc = "returned"
         /\ Len(located) >= 1
         /\ LET t == located[Len(located)]
            IN Len(file_data) - (t + 4) < DeclaredLength(t) + 4
         /\ Len(idat_chunks) = Len(located) - 1

\* A complete IDAT chunk was collected, then the scan stopped at a second
\* one whose checksum is cut short.
C6_Witness ==
    /\ fdiag = "incomplete"
    /\ fpc = "returned"
    /\ located = <<12, 26>>
    /\ idat_chunks = <<[chunk_data |-> <<7, 9>>, crc32_bytes |-> a_crc]>>
    /\ Len(file_data) = 31

\* C7 (as claimed): a geometry returned as a success has positive
\* bytes_per_pixel, width and height.
C7_GeometryPositive ==
    ihdr_result.ok =>
        /\ ihdr_result.bytes_per_pixel > 0
        /\ ihdr_result.width > 0
        /\ ihdr_result.height > 0

-----------------------------------------------------------------------------
\* Properties of unfilter_paeth (SpecPaeth).

\* The byte of the previous scanline at 0-based position i, 0 when there is
\* no previous scanline.
PrevByte(i) == IF p_prev.isNone THEN 0 ELSE p_prev.bytes[i + 1]

\* C9: Paeth.  Every output byte is (data[i] + predictor) mod 256, the
\* predictor being the candidate among left, up, upper_left nearest to
\* left + up - upper_left (ties: left, then up, then upper_left), with
\* left = output[i - bpp] and upper_left = prev[i - bpp], each 0 when
\* i < bpp, and up, upper_left 0 when there is no previous scanline.
C9_Paeth ==
    p_pc = "done" =>
        /\ Len(p_result) = Len(p_scanline)
        /\ \A i \in 0..(Len(p_scanline) - 1) :
             LET left == IF i >= p_bpp THEN p_result[i - p_bpp + 1] ELSE 0
                 up == PrevByte(i)
                 upper_left == IF i >= p_bpp THEN PrevByte(i - p_bpp) ELSE 0
             IN /\ p_result[i + 1] = (p_scanline[i + 1] + png_paeth(left, up, upper_left)) % 256
                /\ p_result[i + 1] \in 0..255
        /\ LET seen == {p_scanline[k] : k \in 1..Len(p_scanline)}
                        \cup {p_prev.bytes[k] : k \in 1..Len(p_prev.bytes)}
           IN \A a \in seen, b \in seen, c \in seen :
                paeth_predictor(a, b, c) = png_paeth(a, b, c)

\* A call in which the first sum wraps modulo 256 to 0 and the second byte
\* has left = 0, up = 3, upper_left = 1: up and upper_left are equally near
\* to p = 2, and up is taken.
C9_Witness ==
    /\ p_pc = "done"
    /\ p_bpp = 1
    /\ p_scanline = <<255, 3>>
    /\ p_prev = Some(<<1, 3>>)
    /\ p_result = <<0, 6>>

-----------------------------------------------------------------------------
\* Properties of the CRC engine (SpecCrc).

\* C10 (as claimed): in both modes the register never exceeds 0xFFFFFFFF at
\* any step, and the returned checksum is a 32-bit value.
C10_RegisterWithin32 ==
    /\ crc \subseteq 0..31
    /\ c_result \subseteq 0..31

\* C10 (amended): the reflected register never exceeds 32 bits; the forward
\* register is within 32 bits at every byte boundary (it is masked once per
\* byte) and within 32 + k bits after k shifts of the inner loop; the
\* returned checksum is a 32-bit value in both modes.
C10_MaskedPerByte ==
    /\ c_mode = "reversed" => crc \subseteq 0..31
    /\ (c_mode = "standard" /\ cpc \in {"byte", "returned"}) => crc \subseteq 0..31
    /\ (c_mode = "standard" /\ cpc = "bit") => crc \subseteq 0..(31 + c_k)
    /\ c_result \subseteq 0..31

\* The forward register holding a 40-bit value before the mask of the second byte.
C10_Witness ==
    /\ c_mode = "standard"
    /\ cpc = "bit" /\ c_k = 8 /\ c_i = 1
    /\ 39 \in crc
    /\ c_poly = standard_polynomial
    /\ c_init = default_initial_value

-----------------------------------------------------------------------------
\* Termination of the two chunk loops (SpecPng).

\* Both calls are over: find_idat_chunks has returned its records, and
\* get_png_ihdr_info has returned a geometry or a failure (or main returned
\* before calling it, the inflate call having failed).
ScansOver == fpc = "returned" /\ hpc \in {"returned", "not_run"}

\* An upper bound on the steps find_idat_chunks has left: the bytes between
\* the cursor and the end of the buffer.
FindRemaining ==
    CASE fpc = "start" -> 2 + Len(file_data)
      [] fpc = "loop" -> 1 + Len(file_data) - idx
      [] OTHER -> 0

\* An upper bound on the steps get_png_ihdr_info has left: the bytes between
\* the read position and the end of the file (none once it is past the end).
HdrRemaining ==
    CASE hpc = "idle" -> 3 + Len(file_data)
      [] hpc = "start" -> 2 + Len(file_data)
      [] hpc = "loop" -> 1 + (IF fpos < Len(file_data) THEN Len(file_data) - fpos ELSE 0)
      [] OTHER -> 0

Remaining == FindRemaining + HdrRemaining

\* C11: termination.  Every iteration of find_idat_chunks that does not
\* break collects one record and moves idx forward, to at least 8 bytes past
\* the tag it located; every chunk get_png_ihdr_info skips moves the read
\* position forward by at least 12 bytes.  So every step of the two scans
\* lowers a natural-number bound on the steps left, a scan that is not over
\* can always take a step, and the bound is 0 exactly when both have
\* returned their result: both loops end on every input.
C11_ScansTerminate ==
    /\ [](/\ Remaining \in Nat
          /\ (Remaining = 0) <=> ScansOver
          /\ ScansOver \/ ENABLED NextPng
          /\ fpc = "loop" => idx <= Len(file_data))
    /\ [][/\ Remaining' < Remaining
          /\ (fpc = "loop" /\ fpc' = "loop") =>
               /\ idx' > idx
               /\ Len(located') = Len(located) + 1
               /\ idx' >= located'[Len(located')] + 8
               /\ Len(idat_chunks') = Len(idat_chunks) + 1
          /\ (hpc = "loop" /\ hpc' = "loop") => fpos' >= fpos + 12]_vars

\* Two records were collected in two iterations and a non-IHDR chunk was
\* skipped before both calls ended.
C11_Witness ==
    /\ ScansOver
    /\ Len(idat_chunks) = 2
    /\ idx = Len(file_data)
    /\ hpc = "returned"
    /\ hdiag = "eof"
    /\ fpos > 20

====
